---- MODULE Spec2Model ----
(***************************************************************************)
(* Model of the key derivation, address codec and signing code of          *)
(* terra-rust:                                                             *)
(*   terra-rust-api/src/keys/public.rs   PublicKey and the bech32 codec    *)
(*   terra-rust-api/src/keys/private.rs  PrivateKey, derivation, sign      *)
(*   src/keys.rs                         the CLI key commands and keyring  *)
(*                                                                         *)
(* Bytes are sequences of 0..255, text is a sequence of one-character      *)
(* strings, a Result is a record [ok, val, err].  The bech32 codec is      *)
(* modelled bit for bit.  The hash functions (SHA-256, RIPEMD-160,         *)
(* PBKDF2, HMAC-SHA512) and the curve are stand-ins that keep the output   *)
(* lengths of the real ones.                                               *)
(***************************************************************************)
EXTENDS Integers, Sequences, FiniteSets, TLC

\* ------------------------------------------------------------------------
\* Results
\* ------------------------------------------------------------------------
Ok(v) == [ok |-> TRUE, val |-> v, err |-> "none", detail |-> <<>>]

Err(e) == [ok |-> FALSE, val |-> <<>>, err |-> e, detail |-> <<>>]

\* an error kind that carries a text, as ErrorKind::Conversion(String)
ErrWith(e, text) == [ok |-> FALSE, val |-> <<>>, err |-> e, detail |-> text]

None == [some |-> FALSE, v |-> <<>>]

Some(x) == [some |-> TRUE, v |-> x]

\* a function on 1..n as a sequence value
AsSeq(f) == f \o <<>>

\* the value x itself, brought to TLC's normal form (fields and elements in
\* order) where it is computed: an input or a result that is computed once
\* is then one finished value in every state that holds it
Normal(x) == CHOOSE y \in {x} : y = x

\* ------------------------------------------------------------------------
\* Characters
\* ------------------------------------------------------------------------
LowerChars == <<"a", "b", "c", "d", "e", "f", "g", "h", "i", "j", "k", "l", "m", "n", "o", "p", "q", "r", "s", "t", "u", "v", "w", "x", "y", "z">>

UpperChars == <<"A", "B", "C", "D", "E", "F", "G", "H", "I", "J", "K", "L", "M", "N", "O", "P", "Q", "R", "S", "T", "U", "V", "W", "X", "Y", "Z">>

DigitChars == <<"0", "1", "2", "3", "4", "5", "6", "7", "8", "9">>

IndexOf(seq, c) == IF \E i \in 1..Len(seq) : seq[i] = c
                   THEN CHOOSE i \in 1..Len(seq) : seq[i] = c
                   ELSE 0

IsLower(c) == IndexOf(LowerChars, c) # 0

IsUpper(c) == IndexOf(UpperChars, c) # 0

IsDigit(c) == IndexOf(DigitChars, c) # 0

\* ASCII code of a character; 0 for a character outside [0-9A-Za-z]
AsciiCode(c) == IF IsLower(c) THEN 96 + IndexOf(LowerChars, c)
                ELSE IF IsUpper(c) THEN 64 + IndexOf(UpperChars, c)
                ELSE IF IsDigit(c) THEN 47 + IndexOf(DigitChars, c)
                ELSE 0

to_lowercase_char(c) == IF IsUpper(c) THEN LowerChars[IndexOf(UpperChars, c)] ELSE c

to_lowercase(s) == AsSeq([i \in 1..Len(s) |-> to_lowercase_char(s[i])])

to_uppercase(s) == AsSeq([i \in 1..Len(s) |->
                      IF IsLower(s[i]) THEN UpperChars[IndexOf(LowerChars, s[i])] ELSE s[i]])

\* ------------------------------------------------------------------------
\* Bit operations on naturals
\* ------------------------------------------------------------------------
Pow2Table == <<1, 2, 4, 8, 16, 32, 64, 128, 256, 512, 1024, 2048, 4096, 8192, 16384, 32768,
               65536, 131072, 262144, 524288, 1048576, 2097152, 4194304, 8388608, 16777216,
               33554432, 67108864, 134217728, 268435456, 536870912, 1073741824>>

Pow2(n) == Pow2Table[n + 1]

RECURSIVE XorBits(_, _)
XorBits(a, b) == IF a = 0 THEN b
                 ELSE IF b = 0 THEN a
                 ELSE (((a % 2) + (b % 2)) % 2) + 2 * XorBits(a \div 2, b \div 2)

\* exclusive or of two 5-bit values
Xor5 == AsSeq([x \in 1..32 |-> AsSeq([y \in 1..32 |-> XorBits(x - 1, y - 1)])])

\* exclusive or, five bits at a time
RECURSIVE Xor(_, _)
Xor(a, b) == IF a = 0 THEN b
             ELSE IF b = 0 THEN a
             ELSE Xor5[(a % 32) + 1][(b % 32) + 1] + 32 * Xor(a \div 32, b \div 32)

\* ------------------------------------------------------------------------
\* bech32 (bitcoin::bech32): checksum, encode, decode, 8<->5 bit regrouping
\* ------------------------------------------------------------------------
CHARSET == <<"q", "p", "z", "r", "y", "9", "x", "8", "g", "f", "2", "t", "v", "d", "w", "0", "s", "3", "j", "n", "5", "4", "k", "h", "c", "e", "6", "m", "u", "a", "7", "l">>

GEN == <<996825010, 642813549, 513874426, 1027748829, 705979059>>

SEP == "1"

RECURSIVE GenMix(_, _, _)
GenMix(chk, b, i) == IF i > 5 THEN chk
                     ELSE GenMix(IF (b \div Pow2(i - 1)) % 2 = 1 THEN Xor(chk, GEN[i]) ELSE chk,
                                 b, i + 1)

\* one round of the checksum loop for the value v
PolymodStep(chk, v) == GenMix(Xor((chk % 33554432) * 32, v), chk \div 33554432, 1)

\* the checksum loop over values[lo..hi], started from chk (the left half is
\* computed before the right half starts)
RECURSIVE PolymodRange(_, _, _, _)
PolymodRange(values, lo, hi, chk) ==
    IF lo > hi THEN chk
    ELSE IF lo = hi THEN PolymodStep(chk, values[lo])
    ELSE LET mid == (lo + hi) \div 2
             left == PolymodRange(values, lo, mid, chk)
         IN  IF left >= 0 THEN PolymodRange(values, mid + 1, hi, left) ELSE 0

polymod(values) == PolymodRange(values, 1, Len(values), 1)

hrp_expand(hrp) == [i \in 1..Len(hrp) |-> AsciiCode(hrp[i]) \div 32] \o <<0>>
                   \o [i \in 1..Len(hrp) |-> AsciiCode(hrp[i]) % 32]

verify_checksum(hrp, data) == polymod(hrp_expand(hrp) \o data) = 1

create_checksum(hrp, data) ==
    LET plm == Xor(polymod(hrp_expand(hrp) \o data \o <<0, 0, 0, 0, 0, 0>>), 1)
    IN  AsSeq([i \in 1..6 |-> (plm \div Pow2(5 * (6 - i))) % 32])

\* check_hrp: the prefix is not empty, at most 83 characters, printable, one case
check_hrp(hrp) ==
    /\ Len(hrp) >= 1
    /\ Len(hrp) <= 83
    /\ \A i \in 1..Len(hrp) : AsciiCode(hrp[i]) >= 33 /\ AsciiCode(hrp[i]) <= 126
    /\ ~ ((\E i \in 1..Len(hrp) : IsLower(hrp[i])) /\ (\E i \in 1..Len(hrp) : IsUpper(hrp[i])))

encode(hrp, data) ==
    IF ~ check_hrp(hrp) THEN Err("bech32")
    ELSE LET h == to_lowercase(hrp)
             body == data \o create_checksum(h, data)
         IN  Ok(h \o <<SEP>> \o [i \in 1..Len(body) |-> CHARSET[body[i] + 1]])

\* value of a data character, -1 when it is not in the charset (either case)
CharsetRev(c) == IndexOf(CHARSET, to_lowercase_char(c)) - 1

decode(s) ==
    IF Len(s) < 8 \/ Len(s) > 90 THEN Err("InvalidLength")
    ELSE IF \A i \in 1..Len(s) : s[i] # SEP THEN Err("MissingSeparator")
    ELSE LET sep == CHOOSE i \in 1..Len(s) :
                        s[i] = SEP /\ \A j \in (i + 1)..Len(s) : s[j] # SEP
             raw_hrp == SubSeq(s, 1, sep - 1)
             raw_data == SubSeq(s, sep + 1, Len(s))
             has_lower == \E i \in 1..Len(s) : IsLower(s[i])
             has_upper == \E i \in 1..Len(s) : IsUpper(s[i])
             hrp == to_lowercase(raw_hrp)
             data == AsSeq([i \in 1..Len(raw_data) |-> CharsetRev(raw_data[i])])
         IN  IF Len(raw_hrp) = 0 \/ Len(raw_data) < 6 \/ Len(raw_hrp) > 83
               THEN Err("InvalidLength")
             ELSE IF \E i \in 1..Len(raw_hrp) :
                        AsciiCode(raw_hrp[i]) < 33 \/ AsciiCode(raw_hrp[i]) > 126
               THEN Err("InvalidChar")
             ELSE IF \E i \in 1..Len(data) : data[i] < 0 THEN Err("InvalidChar")
             ELSE IF has_lower /\ has_upper THEN Err("MixedCase")
             ELSE IF ~ verify_checksum(hrp, data) THEN Err("InvalidChecksum")
             ELSE Ok([hrp |-> hrp, data |-> SubSeq(data, 1, Len(data) - 6)])

\* bit k (0 = first, most significant) of a sequence of `width`-bit values,
\* 0 past the end
BitAt(data, width, k) ==
    IF k >= width * Len(data) THEN 0
    ELSE (data[(k \div width) + 1] \div Pow2(width - 1 - (k % width))) % 2

RECURSIVE BitsValue(_, _, _, _)
BitsValue(data, width, k, n) ==
    IF n = 0 THEN 0
    ELSE 2 * BitsValue(data, width, k, n - 1) + BitAt(data, width, k + n - 1)

\* convert_bits: regroup `from`-bit values into `to`-bit values; with pad the
\* last group is filled with zero bits, without pad left-over bits must be
\* fewer than `from` and all zero
convert_bits(data, from, to, pad) ==
    LET total == from * Len(data)
        whole == total \div to
        rest == total % to
    IN  IF \E i \in 1..Len(data) : data[i] \div Pow2(from) # 0 THEN Err("InvalidData")
        ELSE IF pad
          THEN Ok(AsSeq([i \in 1..(whole + (IF rest > 0 THEN 1 ELSE 0)) |->
                            BitsValue(data, from, to * (i - 1), to)]))
        ELSE IF rest >= from \/ BitsValue(data, from, to * whole, rest) # 0
          THEN Err("InvalidPadding")
        ELSE Ok(AsSeq([i \in 1..whole |-> BitsValue(data, from, to * (i - 1), to)]))

to_base32(bytes) == convert_bits(bytes, 8, 5, TRUE).val

from_base32(vu5) == convert_bits(vu5, 5, 8, FALSE)

\* ------------------------------------------------------------------------
\* hex
\* ------------------------------------------------------------------------
HexChars == <<"0", "1", "2", "3", "4", "5", "6", "7", "8", "9", "a", "b", "c", "d", "e", "f">>

HexVal(c) == IndexOf(HexChars, to_lowercase_char(c)) - 1

hex_encode(bytes) == AsSeq([i \in 1..(2 * Len(bytes)) |->
                        IF i % 2 = 1 THEN HexChars[(bytes[(i + 1) \div 2] \div 16) + 1]
                        ELSE HexChars[(bytes[i \div 2] % 16) + 1]])

hex_decode(text) ==
    IF Len(text) % 2 = 1 THEN Err("FromHex")
    ELSE IF \E i \in 1..Len(text) : HexVal(text[i]) < 0 THEN Err("FromHex")
    ELSE Ok(AsSeq([i \in 1..(Len(text) \div 2) |->
                      16 * HexVal(text[2 * i - 1]) + HexVal(text[2 * i])]))

\* ------------------------------------------------------------------------
\* Digests.  Stand-ins for the hash functions: deterministic, of the real
\* output length, and different for the inputs the model uses.
\* ------------------------------------------------------------------------
RECURSIVE WeightedSum(_, _, _)
WeightedSum(bytes, lo, hi) ==
    IF lo > hi THEN 0
    ELSE IF lo = hi THEN ((lo + 2) * (bytes[lo] + 1)) % 65521
    ELSE LET mid == (lo + hi) \div 2
             left == WeightedSum(bytes, lo, mid)
         IN  IF left >= 0 THEN (left + WeightedSum(bytes, mid + 1, hi)) % 65521 ELSE 0

Digest(tag, bytes, n) ==
    LET h == (WeightedSum(bytes, 1, Len(bytes)) + 257 * tag + 31 * Len(bytes)) % 65521
    IN  AsSeq([i \in 1..n |-> (h * (i + 6) + (h \div 256) + i) % 256])

Sha256(bytes) == Digest(1, bytes, 32)

Ripemd160(bytes) == Digest(2, bytes, 20)

\* ------------------------------------------------------------------------
\* PublicKey (terra-rust-api/src/keys/public.rs)
\* ------------------------------------------------------------------------
BECH32_PUBKEY_DATA_PREFIX == <<235, 90, 233, 135, 33>>

Prefix_terra == <<"t", "e", "r", "r", "a">>

Prefix_terravaloper == Prefix_terra \o <<"v", "a", "l", "o", "p", "e", "r">>

Prefix_terravalcons == Prefix_terra \o <<"v", "a", "l", "c", "o", "n", "s">>

Prefix_terrapub == Prefix_terra \o <<"p", "u", "b">>

Prefix_terravaloperpub == Prefix_terravaloper \o <<"p", "u", "b">>

Prefix_terravalconspub == Prefix_terravalcons \o <<"p", "u", "b">>

AccountLength == 44

OperatorLength == 51

PublicKey(pub, addr) == [raw_pub_key |-> pub, raw_address |-> addr]

pubkey_from_public_key(public_key) == BECH32_PUBKEY_DATA_PREFIX \o public_key

\* a single hash in place of the double hash
address_from_public_key_single(public_key) == Ripemd160(public_key)

address_from_public_key(public_key) == Ripemd160(Sha256(public_key))

from_public_key(bpub) ==
    PublicKey(Some(pubkey_from_public_key(bpub)), Some(address_from_public_key(bpub)))

\* bpub.key.serialize() is the 33-byte compressed point
from_bitcoin_public_key(bpub) ==
    PublicKey(Some(pubkey_from_public_key(bpub)), Some(address_from_public_key(bpub)))

\* prefix or length in place of prefix and length
check_prefix_and_length_either(prefix, data, length) ==
    LET d == decode(data)
    IN  IF d.ok
          THEN IF d.val.hrp = prefix \/ Len(data) = length
                 THEN Ok(d.val.data)
                 ELSE Err("Bech32DecodeErr")
          ELSE ErrWith("Conversion", data)

\* one error kind for every rejection
check_prefix_and_length_onekind(prefix, data, length) ==
    LET d == decode(data)
    IN  IF d.ok /\ d.val.hrp = prefix /\ Len(data) = length
          THEN Ok(d.val.data)
          ELSE Err("Bech32DecodeErr")

check_prefix_and_length(prefix, data, length) ==
    LET d == decode(data)
    IN  IF d.ok
          THEN IF d.val.hrp = prefix /\ Len(data) = length
                 THEN Ok(d.val.data)
                 ELSE Err("Bech32DecodeErr")
          ELSE ErrWith("Conversion", data)

from_account(acc_address) ==
    LET c == check_prefix_and_length(Prefix_terra, acc_address, AccountLength)
    IN  IF ~ c.ok THEN c
        ELSE LET b == from_base32(c.val)
             IN  IF b.ok THEN Ok(PublicKey(None, Some(b.val)))
                 ELSE ErrWith("Conversion", acc_address)

from_operator_address(valoper_address) ==
    LET c == check_prefix_and_length(Prefix_terravaloper, valoper_address, OperatorLength)
    IN  IF ~ c.ok THEN c
        ELSE LET b == from_base32(c.val)
             IN  IF b.ok THEN Ok(PublicKey(None, Some(b.val)))
                 ELSE ErrWith("Conversion", valoper_address)

from_raw_address(raw_address) ==
    LET vec1 == hex_decode(raw_address)
    IN  IF vec1.ok THEN Ok(PublicKey(None, Some(vec1.val))) ELSE vec1

\* the body shared by the six accessors: encode one field under one prefix
EncodeField(field, prefix) ==
    IF field.some
      THEN LET data == encode(prefix, to_base32(field.v))
           IN  IF data.ok THEN Ok(data.val) ELSE Err("Bech32DecodeErr")
      ELSE Err("Implementation")

\* the account address under the operator prefix
account_operator_prefix(self) == EncodeField(self.raw_address, Prefix_terravaloper)

account(self) == EncodeField(self.raw_address, Prefix_terra)

operator_address(self) == EncodeField(self.raw_address, Prefix_terravaloper)

application_public_key(self) == EncodeField(self.raw_pub_key, Prefix_terrapub)

operator_address_public_key(self) == EncodeField(self.raw_pub_key, Prefix_terravaloperpub)

tendermint(self) == EncodeField(self.raw_address, Prefix_terravalcons)

\* the address in place of the public key
tendermint_pubkey_of_address(self) == EncodeField(self.raw_address, Prefix_terravalconspub)

tendermint_pubkey(self) == EncodeField(self.raw_pub_key, Prefix_terravalconspub)

\* ------------------------------------------------------------------------
\* Mnemonic phrases (hkd32::mnemonic).  A phrase text is the sequence of its
\* words, each word written as its index in the word list (a word that is
\* not in the list is written -1).  24 words carry 32 bytes of entropy and
\* one checksum byte, the first byte of the SHA-256 of the entropy.
\* ------------------------------------------------------------------------
KEY_SIZE == 32

WordBits == 11

PhraseOfEntropy(entropy) ==
    [entropy |-> entropy,
     phrase |-> convert_bits(entropy \o <<Sha256(entropy)[1]>>, 8, WordBits, TRUE).val]

\* a Phrase::new that does not compare the checksum byte
Phrase_new_nochecksum(words) ==
    IF \E i \in 1..Len(words) : words[i] < 0 \/ words[i] >= Pow2(WordBits)
      THEN Err("UnknownWord")
    ELSE LET bytes == convert_bits(words, WordBits, 8, TRUE).val
         IN  IF Len(bytes) # KEY_SIZE + 1 THEN Err("WordCount")
             ELSE Ok(PhraseOfEntropy(SubSeq(bytes, 1, KEY_SIZE)))

\* Phrase::new(words, English)
Phrase_new(words) ==
    IF \E i \in 1..Len(words) : words[i] < 0 \/ words[i] >= Pow2(WordBits)
      THEN Err("UnknownWord")
    ELSE LET bytes == convert_bits(words, WordBits, 8, TRUE).val
         IN  IF Len(bytes) # KEY_SIZE + 1 THEN Err("WordCount")
             ELSE IF bytes[KEY_SIZE + 1] # Sha256(SubSeq(bytes, 1, KEY_SIZE))[1]
               THEN Err("Checksum")
             ELSE Ok(PhraseOfEntropy(SubSeq(bytes, 1, KEY_SIZE)))

\* the salt prefix of the seed stretching, "mnemonic" in ASCII
SaltPrefix == <<109, 110, 101, 109, 111, 110, 105, 99>>

Pbkdf2(password, salt, n) == Digest(3, password \o <<0>> \o salt, n)

\* phrase.to_seed(password): 64 bytes stretched from the phrase text and
\* "mnemonic" + password
to_seed(phrase, password) ==
    Pbkdf2(convert_bits(phrase.phrase, WordBits, 8, TRUE).val, SaltPrefix \o password, 64)

\* ------------------------------------------------------------------------
\* secp256k1 and BIP32 (bitcoin::secp256k1, bitcoin::util::bip32)
\* ------------------------------------------------------------------------
\* the order of the curve, big-endian
CurveOrder == <<255, 255, 255, 255, 255, 255, 255, 255, 255, 255, 255, 255, 255, 255, 255, 254,
                186, 174, 220, 230, 175, 72, 160, 59, 191, 210, 94, 140, 208, 54, 65, 65>>

BytesLess(a, b) ==
    \E i \in 1..Len(a) : a[i] < b[i] /\ \A j \in 1..(i - 1) : a[j] = b[j]

\* SecretKey::from_slice: 32 bytes, not zero, below the curve order
SecretKeyValid(bytes) ==
    /\ Len(bytes) = 32
    /\ \E i \in 1..32 : bytes[i] # 0
    /\ BytesLess(bytes, CurveOrder)

\* the entropies of the sample phrases
NumEntropy == 1

Entropy(k) == AsSeq([i \in 1..KEY_SIZE |-> (k * 17 + i * 5) % 256])

\* a phrase whose master key is not a valid secret key
WeakMasterEntropy == Entropy(101)

\* a phrase whose first derived child is not a valid secret key
WeakChildEntropy == Entropy(102)

Entropies == {Entropy(k) : k \in 1..NumEntropy} \cup {WeakMasterEntropy, WeakChildEntropy}

HmacKeyMaster == <<66, 105, 116, 99, 111, 105, 110, 32, 115, 101, 101, 100>>

HmacStandIn(key, data) == Digest(4, key \o <<0>> \o data, 64)

\* the private key bytes of the first child on the path, from the master key
HardenedData(key, index) == <<0>> \o key \o <<128 + (index \div 16777216), (index \div 65536) % 256,
                                             (index \div 256) % 256, index % 256>>

WeakMasterSeed == to_seed(PhraseOfEntropy(WeakMasterEntropy), <<>>)

WeakChildSeed == to_seed(PhraseOfEntropy(WeakChildEntropy), <<>>)

\* HMAC inputs whose left half falls outside 1..order-1 (a 2^-128 fraction
\* of all inputs)
WeakHmacInputs ==
    {<<HmacKeyMaster, WeakMasterSeed>>,
     <<SubSeq(HmacStandIn(HmacKeyMaster, WeakChildSeed), 33, 64),
       HardenedData(SubSeq(HmacStandIn(HmacKeyMaster, WeakChildSeed), 1, 32), 44)>>}

HmacSha512(key, data) ==
    IF <<key, data>> \in WeakHmacInputs THEN AsSeq([i \in 1..64 |-> 255])
    ELSE HmacStandIn(key, data)

\* the compressed public key of a secret key: 33 bytes, first byte 2 or 3
PublicKeyOfSecret(key) ==
    LET x == Digest(7, key, 32) IN <<2 + (x[32] % 2)>> \o x

\* scalar addition modulo the order (stand-in: bytewise)
TweakAdd(tweak, key) == AsSeq([i \in 1..32 |-> (tweak[i] + key[i]) % 256])

ExtendedPrivKey(depth, key, chain) == [depth |-> depth, key |-> key, chain_code |-> chain]

\* ExtendedPrivKey::new_master(Network::Bitcoin, seed)
new_master(seed) ==
    LET h == HmacSha512(HmacKeyMaster, seed)
    IN  IF SecretKeyValid(SubSeq(h, 1, 32))
          THEN Ok(ExtendedPrivKey(0, SubSeq(h, 1, 32), SubSeq(h, 33, 64)))
          ELSE Err("Ecdsa")

ChildNumber(index, hardened) == [index |-> index, hardened |-> hardened]

NormalData(key, index) == PublicKeyOfSecret(key) \o <<index \div 16777216, (index \div 65536) % 256,
                                                       (index \div 256) % 256, index % 256>>

\* ExtendedPrivKey::ckd_priv
ckd_priv(xprv, child) ==
    LET h == HmacSha512(xprv.chain_code,
                        IF child.hardened THEN HardenedData(xprv.key, child.index)
                        ELSE NormalData(xprv.key, child.index))
        sk == TweakAdd(SubSeq(h, 1, 32), xprv.key)
    IN  IF ~ SecretKeyValid(SubSeq(h, 1, 32)) \/ ~ SecretKeyValid(sk) THEN Err("Ecdsa")
        ELSE Ok(ExtendedPrivKey(xprv.depth + 1, sk, SubSeq(h, 33, 64)))

RECURSIVE derive_priv(_, _)
derive_priv(xprv, path) ==
    IF Len(path) = 0 THEN Ok(xprv)
    ELSE LET c == ckd_priv(xprv, Head(path))
         IN  IF c.ok THEN derive_priv(c.val, Tail(path)) ELSE c

\* the largest index a path segment may have (2^31 - 1)
MaxChildIndex == 2147483647

\* format!("m/44'/{}'/{}'/0/{}", coin_type, account, index).into_derivation_path()
into_derivation_path(coin_type_, account_, index_) ==
    IF coin_type_ > MaxChildIndex \/ account_ > MaxChildIndex \/ index_ > MaxChildIndex
      THEN Err("Bip32")
    ELSE Ok(<<ChildNumber(44, TRUE), ChildNumber(coin_type_, TRUE), ChildNumber(account_, TRUE),
              ChildNumber(0, FALSE), ChildNumber(index_, FALSE)>>)

\* ------------------------------------------------------------------------
\* PrivateKey (terra-rust-api/src/keys/private.rs)
\* ------------------------------------------------------------------------
LUNA_COIN_TYPE == 330

\* a panic unwinds through the callers like an error that no one handles
Panic == [ok |-> FALSE, val |-> <<>>, err |-> "panic", detail |-> <<>>]

PrivateKey(account_, index_, coin_type_, mnemonic_, root_, leaf_) ==
    [account |-> account_, index |-> index_, coin_type |-> coin_type_, mnemonic |-> mnemonic_,
     root_private_key |-> root_, private_key |-> leaf_]

\* the salt prefix given a second time as the passphrase
gen_private_key_phrase_salted(phrase, account_, index_, coin_type_) ==
    LET seed_ == to_seed(phrase, SaltPrefix)
        root == new_master(seed_)
        path == into_derivation_path(coin_type_, account_, index_)
    IN  IF ~ root.ok THEN Panic
        ELSE IF ~ path.ok THEN path
        ELSE LET leaf == derive_priv(root.val, path.val)
             IN  IF ~ leaf.ok THEN leaf
                 ELSE Ok(PrivateKey(account_, index_, coin_type_, Some(phrase), root.val, leaf.val))

gen_private_key_phrase(phrase, account_, index_, coin_type_) ==
    LET seed_ == to_seed(phrase, <<>>)
        root == new_master(seed_)
        path == into_derivation_path(coin_type_, account_, index_)
    IN  IF ~ root.ok THEN Panic
        ELSE IF ~ path.ok THEN path
        ELSE LET leaf == derive_priv(root.val, path.val)
             IN  IF ~ leaf.ok THEN leaf
                 ELSE Ok(PrivateKey(account_, index_, coin_type_, Some(phrase), root.val, leaf.val))

\* PrivateKey::new with the phrase that Phrase::random drew
new(random_phrase) == gen_private_key_phrase(random_phrase, 0, 0, LUNA_COIN_TYPE)

from_words(words) ==
    LET p == Phrase_new(words)
    IN  IF p.ok THEN gen_private_key_phrase(p.val, 0, 0, LUNA_COIN_TYPE)
        ELSE Err("Phrasing")

public_key(self) == from_bitcoin_public_key(PublicKeyOfSecret(self.private_key.key))

seed(self, passwd) ==
    IF self.mnemonic.some THEN Some(to_seed(self.mnemonic.v, passwd)) ELSE None

words(self) ==
    IF self.mnemonic.some THEN Some(self.mnemonic.v.phrase) ELSE None

\* the passphrase variants: the same derivation with the caller's passphrase
\* in the seed stretching, and a master key failure reported as an error
gen_private_key_phrase_seed(phrase, account_, index_, coin_type_, seed_phrase) ==
    LET seed_ == to_seed(phrase, seed_phrase)
        root == new_master(seed_)
        path == into_derivation_path(coin_type_, account_, index_)
    IN  IF ~ root.ok THEN root
        ELSE IF ~ path.ok THEN path
        ELSE LET leaf == derive_priv(root.val, path.val)
             IN  IF ~ leaf.ok THEN leaf
                 ELSE Ok(PrivateKey(account_, index_, coin_type_, Some(phrase), root.val, leaf.val))

new_seed(random_phrase, seed_phrase) ==
    gen_private_key_phrase_seed(random_phrase, 0, 0, LUNA_COIN_TYPE, seed_phrase)

from_words_seed(words_, seed_phrase) ==
    LET p == Phrase_new(words_)
    IN  IF p.ok THEN gen_private_key_phrase_seed(p.val, 0, 0, LUNA_COIN_TYPE, seed_phrase)
        ELSE Err("Phrasing")

\* base64 text as its 6-bit values and the number of '=' that follow them
Base64(bytes) == [sextets |-> convert_bits(bytes, 8, 6, TRUE).val,
                  pad |-> (3 - (Len(bytes) % 3)) % 3]

Base64Decode(text) ==
    LET bytes == convert_bits(text.sextets, 6, 8, TRUE).val
    IN  SubSeq(bytes, 1, (6 * Len(text.sextets)) \div 8)

StdSignature_create(signature, pub_k) ==
    [signature |-> Base64(signature),
     pub_key |-> [type |-> "tendermint/PubKeySecp256k1", value |-> Base64(pub_k)]]

\* ------------------------------------------------------------------------
\* State
\* ------------------------------------------------------------------------
VARIABLES
    priv_key,   \* the PrivateKey the caller holds (Option)
    pub_key,    \* the PublicKey the caller holds (Option)
    call,       \* the last operation called and its input
    ret,        \* what that operation returned
    output,     \* what that operation wrote to stdout, stderr and the log
    signed,     \* the signatures made with priv_key so far: [key, blob, sig]
    keyring,    \* the secret store: key id -> Option(phrase text)
    created     \* per (wallet, name): the key the last successful New or
                \* Recover made, None after a successful Delete (Option)

vars == <<priv_key, pub_key, call, ret, output, signed, keyring, created>>

\* one written item: who wrote it, where, what kind of data, the data
Written(by, chan, kind, data) == [by |-> by, chan |-> chan, kind |-> kind, data |-> data]

\* ------------------------------------------------------------------------
\* Signing
\* ------------------------------------------------------------------------
Message_from_slice(digest) == IF Len(digest) = 32 THEN Ok(digest) ELSE Err("Secp256k1")

\* secp.sign: the compact form (r, s) of the signature; the nonce is derived
\* from the key and the message
EcdsaSignCompact(message, priv_k) == Digest(8, priv_k \o message, 64)

\* a nonce that counts the signatures made in place of the derived nonce
sign_counted_nonce(self, blob) ==
    LET pub_k == PublicKeyOfSecret(self.private_key.key)
        priv_k == self.private_key.key
        sha_result == Sha256(blob)
        message == Message_from_slice(sha_result)
    IN  IF ~ message.ok THEN message
        ELSE Ok(StdSignature_create(
                    EcdsaSignCompact(message.val, priv_k \o <<Cardinality(signed)>>), pub_k))

sign(self, blob) ==
    LET pub_k == PublicKeyOfSecret(self.private_key.key)
        priv_k == self.private_key.key
        sha_result == Sha256(blob)
        message == Message_from_slice(sha_result)
    IN  IF ~ message.ok THEN message
        ELSE Ok(StdSignature_create(EcdsaSignCompact(message.val, priv_k), pub_k))

\* ------------------------------------------------------------------------
\* Inputs
\* ------------------------------------------------------------------------
\* the account address and public key of the tests in public.rs
KnownAddress == <<148, 196, 197, 42, 151, 119, 227, 195, 98, 142, 92, 254, 129, 159, 110, 38, 167, 245, 189, 130>>

KnownPublicKey == <<2, 207, 126, 208, 181, 131, 37, 56, 205, 137, 181, 80, 132, 206, 147, 57, 155, 24, 110, 56, 22, 132, 179, 19, 136, 118, 56, 1, 67, 156, 189, 210, 10>>

\* number of further sample addresses, and the longest short byte string
NumAddress == 1

MaxShort == 2

BytesOfLen(n, k) == AsSeq([i \in 1..n |-> (k * 53 + i * 29) % 256])

Addresses == {KnownAddress} \cup {BytesOfLen(20, k) : k \in 1..NumAddress}

ShortBytes == {BytesOfLen(n, 3) : n \in 0..MaxShort}

\* byte strings next to the address length
NearAddresses == {BytesOfLen(19, 5), BytesOfLen(21, 5)}

PublicKeyBytes == {KnownPublicKey} \cup ShortBytes

Prefixes == {Prefix_terra, Prefix_terravaloper, Prefix_terravalcons}

\* well-formed bech32 texts of addresses and of byte strings of other lengths
GoodTexts == {encode(p, to_base32(a)).val : p \in Prefixes, a \in Addresses}
             \cup {encode(p, to_base32(a)).val : p \in {Prefix_terra, Prefix_terravaloper},
                                                  a \in NearAddresses}

\* a text with one data character replaced by the next one of the charset
Corrupt(text) ==
    [text EXCEPT ![Len(text) - 7] = CHARSET[((IndexOf(CHARSET, @) % 32) + 1)]]

\* a text with its first letter in the other case
MixCase(text) == [text EXCEPT ![1] = UpperChars[IndexOf(LowerChars, @)]]

AccountText == encode(Prefix_terra, to_base32(KnownAddress)).val

OperatorText == encode(Prefix_terravaloper, to_base32(KnownAddress)).val

AddressTexts ==
    GoodTexts
    \cup {to_uppercase(AccountText), to_uppercase(OperatorText)}
    \cup {Corrupt(AccountText), Corrupt(OperatorText), MixCase(AccountText)}
    \cup {Prefix_terra, Prefix_terra \o <<"q", "q", "q", "q", "q", "q", "q", "q">>,
          SubSeq(AccountText, 1, 43) \o <<" ">>}

HexTexts == {hex_encode(a) : a \in Addresses \cup ShortBytes \cup NearAddresses}
            \cup {to_uppercase(hex_encode(KnownAddress)), <<"0">>, <<"z", "z">>}

\* valid phrase texts, and texts that are not a phrase
ValidWords == {PhraseOfEntropy(e).phrase : e \in Entropies}

SampleWords == PhraseOfEntropy(Entropy(1)).phrase

InvalidWords == {SubSeq(SampleWords, 1, 23),
                 [SampleWords EXCEPT ![24] = (@ + 1) % 2048],
                 [SampleWords EXCEPT ![2] = -1],
                 <<>>}

WordsInputs == ValidWords \cup InvalidWords

\* passphrases (--seed), as ASCII bytes
Passphrases == {<<>>, <<112>>}

\* payloads to sign
NumBlob == 3

Blobs == {BytesOfLen(n, 7) : n \in 0..(NumBlob - 1)}

\* the most signatures the history keeps
MaxSigned == 3

\* --wallet and the name of a key, as texts
Wallets == {<<"w">>, <<"w", "-", "a">>}

Names == {<<"a">>, <<"a", "-", "a">>}

KeyPrefix == <<"T", "E", "R", "R", "A", "-", "R", "U", "S", "T", "-">>

\* an entry found by its user name alone, whatever the service
KeyId_username(wallet, name) == <<<<>>, KeyPrefix \o wallet \o <<"-">> \o name>>

\* Keyring::new(wallet, format!("TERRA-RUST-{}-{}", wallet, name)): the
\* service and the user name of the entry
KeyId(wallet, name) == <<wallet, KeyPrefix \o wallet \o <<"-">> \o name>>

\* the (wallet, name) pairs the commands are run on: the two that give the
\* same user name, TERRA-RUST-w-a-a, under two services
Targets ==
    {t \in Wallets \X Names :
        KeyId(t[1], t[2])[2] = KeyPrefix \o <<"w", "-", "a", "-", "a">>}

KeyIds == {KeyId(t[1], t[2]) : t \in Targets}

NoCall == [op |-> "none", arg |-> <<>>]

Call(op, arg) == [op |-> op, arg |-> arg]

Init ==
    /\ priv_key = None
    /\ pub_key = None
    /\ call = NoCall
    /\ ret = Ok(<<>>)
    /\ output = {}
    /\ signed = {}
    /\ keyring = [id \in KeyIds |-> None]
    /\ created = [t \in Targets |-> None]

\* ------------------------------------------------------------------------
\* Operations on PublicKey
\* ------------------------------------------------------------------------
\* a constructor that cannot fail
Construct(op, arg, value) ==
    /\ call' = Call(op, arg)
    /\ ret' = Ok(value)
    /\ pub_key' = Some(value)
    /\ output' = {}
    /\ UNCHANGED <<priv_key, signed, keyring, created>>

\* a constructor that returns a Result: no PublicKey on an error
TryConstruct(op, arg, r) ==
    /\ call' = Call(op, arg)
    /\ ret' = r
    /\ pub_key' = IF r.ok THEN Some(r.val) ELSE None
    /\ output' = {}
    /\ UNCHANGED <<priv_key, signed, keyring, created>>

\* an accessor of the PublicKey the caller holds
Access(op, r) ==
    /\ pub_key.some
    /\ call' = Call(op, pub_key.v)
    /\ ret' = r
    /\ output' = {}
    /\ UNCHANGED <<priv_key, pub_key, signed, keyring, created>>

FromPublicKey ==
    \E b \in PublicKeyBytes : Construct("from_public_key", b, Normal(from_public_key(b)))

FromBitcoinPublicKey ==
    \E e \in Entropies :
        Construct("from_bitcoin_public_key", PublicKeyOfSecret(e),
                  Normal(from_bitcoin_public_key(PublicKeyOfSecret(e))))

FromAccount ==
    \E t \in AddressTexts : TryConstruct("from_account", t, Normal(from_account(t)))

FromOperatorAddress ==
    \E t \in AddressTexts :
        TryConstruct("from_operator_address", t, Normal(from_operator_address(t)))

FromRawAddress ==
    \E t \in HexTexts : TryConstruct("from_raw_address", t, Normal(from_raw_address(t)))

Account == Access("account", account(pub_key.v))

OperatorAddress == Access("operator_address", operator_address(pub_key.v))

ApplicationPublicKey == Access("application_public_key", application_public_key(pub_key.v))

OperatorAddressPublicKey ==
    Access("operator_address_public_key", operator_address_public_key(pub_key.v))

Tendermint == Access("tendermint", tendermint(pub_key.v))

TendermintPubkey == Access("tendermint_pubkey", tendermint_pubkey(pub_key.v))

NextCodec ==
    \/ FromPublicKey
    \/ FromBitcoinPublicKey
    \/ FromAccount
    \/ FromOperatorAddress
    \/ FromRawAddress
    \/ Account
    \/ OperatorAddress
    \/ ApplicationPublicKey
    \/ OperatorAddressPublicKey
    \/ Tendermint
    \/ TendermintPubkey

SpecCodec == Init /\ [][NextCodec]_vars

\* ------------------------------------------------------------------------
\* Operations on PrivateKey
\* ------------------------------------------------------------------------
\* a constructor of PrivateKey: no key on an error or a panic; the caller
\* starts over with the new key
MakeKey(op, arg, r) ==
    /\ call' = Call(op, arg)
    /\ ret' = r
    /\ priv_key' = IF r.ok THEN Some(r.val) ELSE None
    /\ pub_key' = None
    /\ signed' = {}
    /\ output' = {}
    /\ UNCHANGED <<keyring, created>>

\* PrivateKey::new: Phrase::random draws the entropy
New ==
    \E e \in Entropies :
        MakeKey("new", PhraseOfEntropy(e).phrase, Normal(new(PhraseOfEntropy(e))))

FromWords == \E w \in WordsInputs : MakeKey("from_words", w, Normal(from_words(w)))

NewSeed ==
    \E e \in Entropies, s \in Passphrases :
        MakeKey("new_seed", Normal([words |-> PhraseOfEntropy(e).phrase, seed |-> s]),
                Normal(new_seed(PhraseOfEntropy(e), s)))

FromWordsSeed ==
    \E w \in WordsInputs, s \in Passphrases :
        MakeKey("from_words_seed", Normal([words |-> w, seed |-> s]),
                Normal(from_words_seed(w, s)))

PublicKeyOf ==
    /\ priv_key.some
    /\ call' = Call("public_key", priv_key.v.private_key.key)
    /\ ret' = Ok(public_key(priv_key.v))
    /\ pub_key' = Some(public_key(priv_key.v))
    /\ output' = {}
    /\ UNCHANGED <<priv_key, signed, keyring, created>>

\* the compact signature bytes inside a StdSignature
SignatureBytes(sig) == Base64Decode(sig.signature)

Sign ==
    \E blob \in Blobs :
        LET r == sign(priv_key.v, blob)
            entry == [key |-> priv_key.v.private_key.key, blob |-> blob, sig |-> r.val]
        IN  /\ priv_key.some
            /\ r.ok => (entry \in signed \/ Cardinality(signed) < MaxSigned)
            /\ call' = Call("sign", blob)
            /\ ret' = r
            /\ output' = IF r.ok
                           THEN {Written("sign", "stderr", "signature",
                                         hex_encode(SignatureBytes(r.val)))}
                           ELSE {}
            /\ signed' = IF r.ok THEN signed \cup {entry} ELSE signed
            /\ UNCHANGED <<priv_key, pub_key, keyring, created>>

NextKey ==
    \/ New
    \/ FromWords
    \/ NewSeed
    \/ FromWordsSeed
    \/ PublicKeyOf
    \/ Sign

SpecKey == Init /\ [][NextKey]_vars

\* ------------------------------------------------------------------------
\* The key commands of the CLI (src/keys.rs) and the keyring
\* ------------------------------------------------------------------------
\* --seed on the command line
SeedOptions == {None, Some(<<112>>)}

\* what the user types at "Recovery words:"; None is the end of the input
RecoverInputs == {Some(SampleWords),
                  Some(PhraseOfEntropy(WeakMasterEntropy).phrase),
                  Some(SubSeq(SampleWords, 1, 23)),
                  Some([SampleWords EXCEPT ![24] = (@ + 1) % 2048]),
                  None}

\* the entropies Phrase::random draws in the commands
CliEntropies == {Entropy(1), WeakMasterEntropy}

ParseInputs == {hex_encode(KnownAddress), <<"z", "z">>}

\* the keyring crate: get and delete fail when there is no entry
get_password(ring, id) == IF ring[id].some THEN Ok(ring[id].v) ELSE Err("Keyring")

set_password(ring, id, secret) == [ring EXCEPT ![id] = Some(secret)]

delete_password(ring, id) == [ring EXCEPT ![id] = None]

\* get_private_key: the result and what it writes
get_private_key(ring, wallet, name, seed_) ==
    LET phrase == get_password(ring, KeyId(wallet, name))
    IN  IF ~ phrase.ok THEN [r |-> phrase, out |-> {}]
        ELSE [r |-> IF seed_.some THEN from_words_seed(phrase.val, seed_.v)
                    ELSE from_words(phrase.val),
              out |-> {Written("get_private_key", "log", "phrase", phrase.val)}]

\* the fixed texts a command prints
Notice(by) == Written(by, "stdout", "notice", <<>>)

\* the key a successful New or Recover made, and the --seed it was made with
Made(seed_, pk) == Some([seed |-> seed_, key |-> pk])

\* one run of a command: its result, its output, the keyring after it, and
\* the keys made so far
Command(op, arg, r, out, ring, made) ==
    /\ call' = Call(op, arg)
    /\ ret' = r
    /\ output' = out
    /\ keyring' = ring
    /\ created' = made
    /\ UNCHANGED <<priv_key, pub_key, signed>>

CmdParse ==
    \E hex \in ParseInputs :
        Command("Parse", hex, Ok(<<>>), {Written("Parse", "stdout", "hex", hex)}, keyring,
                created)

CmdRecover ==
    \E t \in Targets, seed_ \in SeedOptions, line \in RecoverInputs :
        \E pk \in {Normal(IF ~ line.some THEN Panic
                           ELSE IF seed_.some THEN from_words_seed(line.v, seed_.v)
                           ELSE from_words(line.v))} :
            LET wallet == t[1]
                name == t[2]
                printed == {Notice("Recover")}
                           \cup (IF seed_.some
                                   THEN {Written("Recover", "stdout", "passphrase", seed_.v)}
                                   ELSE {})
                arg == [wallet |-> wallet, name |-> name, seed |-> seed_, line |-> line]
            IN  IF ~ pk.ok THEN Command("Recover", arg, pk, printed, keyring, created)
                ELSE Command("Recover", arg, Ok(<<>>), printed,
                             set_password(keyring, KeyId(wallet, name), words(pk.val).v),
                             [created EXCEPT ![t] = Made(seed_, pk.val)])

CmdNew ==
    \E t \in Targets, seed_ \in SeedOptions, e \in CliEntropies :
        \E pk \in {Normal(IF seed_.some THEN new_seed(PhraseOfEntropy(e), seed_.v)
                           ELSE new(PhraseOfEntropy(e)))} :
            LET wallet == t[1]
                name == t[2]
                arg == [wallet |-> wallet, name |-> name, seed |-> seed_]
            IN  IF ~ pk.ok THEN Command("New", arg, pk, {Notice("New")}, keyring, created)
                ELSE Command("New", arg, Ok(<<>>),
                             {Notice("New"), Written("New", "stdout", "phrase", words(pk.val).v)},
                             set_password(keyring, KeyId(wallet, name), words(pk.val).v),
                             [created EXCEPT ![t] = Made(seed_, pk.val)])

CmdDelete ==
    \E t \in Targets :
        LET wallet == t[1]
            name == t[2]
            arg == [wallet |-> wallet, name |-> name]
        IN  IF keyring[KeyId(wallet, name)].some
              THEN Command("Delete", arg, Ok(<<>>), {},
                           delete_password(keyring, KeyId(wallet, name)),
                           [created EXCEPT ![t] = None])
              ELSE Command("Delete", arg, Err("Keyring"), {}, keyring, created)

CmdGet ==
    \E t \in Targets, seed_ \in SeedOptions :
        \E got \in {get_private_key(keyring, t[1], t[2], seed_)} :
            LET arg == [wallet |-> t[1], name |-> t[2], seed |-> seed_]
            IN  IF ~ got.r.ok THEN Command("Get", arg, got.r, got.out, keyring, created)
                ELSE \E acc \in {account(public_key(got.r.val))} :
                         IF ~ acc.ok THEN Command("Get", arg, acc, got.out, keyring, created)
                         ELSE Command("Get", arg, Ok(<<>>),
                                      got.out \cup {Written("Get", "stdout", "address", acc.val)},
                                      keyring, created)

\* todo!()
CmdList == Command("List", <<>>, Panic, {}, keyring, created)

NextCli ==
    \/ CmdParse
    \/ CmdRecover
    \/ CmdNew
    \/ CmdDelete
    \/ CmdGet
    \/ CmdList

SpecCli == Init /\ [][NextCli]_vars

\* ------------------------------------------------------------------------
\* Properties
\* ------------------------------------------------------------------------
CodecConstructors == {"from_public_key", "from_bitcoin_public_key", "from_account",
                      "from_operator_address", "from_raw_address"}

SecretKinds == {"phrase", "seed", "private_key"}

CoreWriters == {"new", "from_words", "new_seed", "from_words_seed", "public_key", "sign",
                "get_private_key"}

\* C1: no operation of the core (PrivateKey construction, public_key, sign,
\* get_private_key) writes phrase text, seed bytes or private key bytes to
\* the log, stdout or stderr, whether it succeeds or fails.
C1_NoSecretWritten ==
    \A w \in output : w.by \in CoreWriters => w.kind \notin SecretKinds

\* the passphrase the caller of a PrivateKey constructor supplied
SuppliedPassphrase == IF call.op \in {"from_words_seed", "new_seed"} THEN call.arg.seed ELSE <<>>

SuppliedWords == IF call.op \in {"from_words_seed", "new_seed"} THEN call.arg.words ELSE call.arg

KeyConstructors == {"new", "from_words", "new_seed", "from_words_seed"}

EncodesField(r, self_field, prefix) ==
    IF self_field.some
      THEN /\ r.ok
           /\ decode(r.val).ok
           /\ decode(r.val).val.hrp = prefix
           /\ from_base32(decode(r.val).val.data) = Ok(self_field.v)
      ELSE ~ r.ok /\ r.err = "Implementation"

\* C3: each accessor encodes one (prefix, field) pair and fails with the
\* missing-data error (ErrorKind::Implementation) exactly when its field is
\* absent; with only raw_address the three address accessors succeed and
\* the three public key accessors fail.
C3_Accessors ==
    /\ call.op = "account" => EncodesField(ret, call.arg.raw_address, Prefix_terra)
    /\ call.op = "operator_address" =>
           EncodesField(ret, call.arg.raw_address, Prefix_terravaloper)
    /\ call.op = "tendermint" => EncodesField(ret, call.arg.raw_address, Prefix_terravalcons)
    /\ call.op = "application_public_key" =>
           EncodesField(ret, call.arg.raw_pub_key, Prefix_terrapub)
    /\ call.op = "operator_address_public_key" =>
           EncodesField(ret, call.arg.raw_pub_key, Prefix_terravaloperpub)
    /\ call.op = "tendermint_pubkey" =>
           EncodesField(ret, call.arg.raw_pub_key, Prefix_terravalconspub)

C3_Witness ==
    /\ call.op = "tendermint_pubkey"
    /\ call.arg.raw_address.some
    /\ ~ call.arg.raw_pub_key.some
    /\ ret.err = "Implementation"

\* C4: from_account accepts a text only if it decodes, its prefix is
\* "terra" and it is 44 characters long; from_operator_address only if the
\* prefix is "terravaloper" and the length 51; an account address given to
\* from_operator_address is rejected; a rejection returns no PublicKey.
C4_AcceptsOnly ==
    /\ (call.op = "from_account" /\ ret.ok) =>
           /\ decode(call.arg).ok
           /\ decode(call.arg).val.hrp = Prefix_terra
           /\ Len(call.arg) = 44
    /\ (call.op = "from_operator_address" /\ ret.ok) =>
           /\ decode(call.arg).ok
           /\ decode(call.arg).val.hrp = Prefix_terravaloper
           /\ Len(call.arg) = 51
    /\ (call.op = "from_operator_address" /\ call.arg = AccountText) => ~ ret.ok
    /\ (call.op \in {"from_account", "from_operator_address"} /\ ~ ret.ok) => ~ pub_key.some

C4_Witness ==
    /\ call.op = "from_operator_address"
    /\ call.arg = AccountText
    /\ ret.err = "Bech32DecodeErr"
    /\ ~ pub_key.some

\* C5 as stated: every rejection by from_account / from_operator_address is
\* reported as Bech32DecodeErr.
C5_RejectionIsBech32 ==
    (call.op \in {"from_account", "from_operator_address"} /\ ~ ret.ok) =>
        ret.err = "Bech32DecodeErr"

\* C5 as amended: a text that does not decode (checksum, characters, case,
\* separator, length) is rejected with Conversion carrying the text; a text
\* that decodes but has another prefix or length, with Bech32DecodeErr.
C5_RejectionKinds ==
    (call.op \in {"from_account", "from_operator_address"} /\ ~ ret.ok) =>
        IF decode(call.arg).ok
          THEN ret.err = "Bech32DecodeErr"
          ELSE ret.err = "Conversion" /\ ret.detail = call.arg

C5_Witness ==
    /\ call.op = "from_account"
    /\ call.arg = Corrupt(AccountText)
    /\ ret.err = "Conversion"

\* the first half of C6: an address of 20 bytes, encoded by account() or
\* operator_address(), is read back by from_account / from_operator_address
EncodeThenDecode ==
    /\ (call.op = "account" /\ call.arg.raw_address.some
        /\ Len(call.arg.raw_address.v) = 20) =>
           /\ ret.ok
           /\ from_account(ret.val).ok
           /\ from_account(ret.val).val.raw_address = call.arg.raw_address
    /\ (call.op = "operator_address" /\ call.arg.raw_address.some
        /\ Len(call.arg.raw_address.v) = 20) =>
           /\ ret.ok
           /\ from_operator_address(ret.val).ok
           /\ from_operator_address(ret.val).val.raw_address = call.arg.raw_address

\* C6 as stated: encoding and decoding are inverse, and for every text s
\* that from_account accepts, from_account(s).account() is s.
C6_RoundTrip ==
    /\ EncodeThenDecode
    /\ (call.op = "from_account" /\ ret.ok) => account(ret.val) = Ok(call.arg)

\* C6 as amended: encoding and decoding are inverse, and for every text s
\* that from_account accepts, from_account(s).account() is s in lower case
\* (s itself when s is in lower case).
C6_RoundTripLower ==
    /\ EncodeThenDecode
    /\ (call.op = "from_account" /\ ret.ok) => account(ret.val) = Ok(to_lowercase(call.arg))

C6_Witness ==
    /\ call.op = "from_account"
    /\ ret.ok
    /\ call.arg = to_uppercase(AccountText)
    /\ account(ret.val) = Ok(AccountText)

C8_NoPanic ==
    call.op \in (KeyConstructors \cup {"public_key", "sign"}) => ret.err # "panic"

\* C9: raw_address, when present, is 20 bytes long in every PublicKey a
\* constructor returns.
C9_RawAddressIs20 ==
    (call.op \in CodecConstructors /\ ret.ok /\ ret.val.raw_address.some) =>
        Len(ret.val.raw_address.v) = 20

\* C10: a PublicKey built from a text has raw_address and no raw_pub_key;
\* one built from key bytes has raw_pub_key = eb5ae98721 + key bytes and
\* raw_address = RIPEMD160(SHA256(key bytes)); none has raw_pub_key without
\* raw_address.
C10_TwoStates ==
    /\ (call.op \in {"from_account", "from_operator_address", "from_raw_address"} /\ ret.ok) =>
           ret.val.raw_address.some /\ ~ ret.val.raw_pub_key.some
    /\ call.op \in {"from_public_key", "from_bitcoin_public_key"} =>
           /\ ret.ok
           /\ ret.val.raw_pub_key = Some(<<235, 90, 233, 135, 33>> \o call.arg)
           /\ ret.val.raw_address = Some(Ripemd160(Sha256(call.arg)))
    /\ pub_key.some => ~ (pub_key.v.raw_pub_key.some /\ ~ pub_key.v.raw_address.some)

C10_Witness ==
    /\ call.op = "from_public_key"
    /\ call.arg = KnownPublicKey
    /\ pub_key = Some(ret.val)
    /\ Len(ret.val.raw_pub_key.v) = 38

\* the (wallet, name) pair of the last command
CommandTarget == <<call.arg.wallet, call.arg.name>>

\* the addresses the last Get printed
GetPrinted == {w.data : w \in {x \in output : x.by = "Get" /\ x.kind = "address"}}

\* the keyring holds, for each pair, the phrase of the key the last
\* successful New or Recover for that pair made, and nothing after a Delete
StoredIsCreated ==
    \A t \in Targets :
        keyring[KeyId(t[1], t[2])] =
            IF created[t].some THEN Some(words(created[t].v.key).v) ELSE None

\* a successful Get with the passphrase option of the command that made the
\* key prints the account address of that key
GetPrintsCreated ==
    (ret.ok /\ created[CommandTarget].some
            /\ created[CommandTarget].v.seed = call.arg.seed)
        => GetPrinted = {account(public_key(created[CommandTarget].v.key)).val}

WellFormedPhrase(text) ==
    /\ Len(text) = 24
    /\ \A i \in 1..24 : text[i] \in 0..(Pow2(WordBits) - 1)
    /\ text = PhraseOfEntropy(SubSeq(convert_bits(text, WordBits, 8, TRUE).val, 1, KEY_SIZE)).phrase

\* the command c is a Recover and the words typed are not a well-formed phrase
IllFormedWords(c) == c.op = "Recover" /\ c.arg.line.some /\ ~ WellFormedPhrase(c.arg.line.v)

\* C12: a Recover with words that are not a well-formed phrase fails with
\* the phrasing error and leaves the keyring as it was; the keyring changes
\* only in a successful New, Recover or Delete; every secret in the keyring
\* is the well-formed phrase text of the key a successful New or Recover
\* made; and no Get fails with the phrasing error.
C12_OnlyPhrases ==
    /\ [](\A t \in Targets :
            keyring[KeyId(t[1], t[2])].some =>
                /\ WellFormedPhrase(keyring[KeyId(t[1], t[2])].v)
                /\ created[t].some
                /\ keyring[KeyId(t[1], t[2])].v = words(created[t].v.key).v)
    /\ [](call.op = "Get" => ret.err # "Phrasing")
    /\ [][ \A c \in {call'} :
             /\ IllFormedWords(c) => (ret'.err = "Phrasing" /\ keyring' = keyring)
             /\ keyring' # keyring => (c.op \in {"New", "Recover", "Delete"} /\ ret'.ok) ]_vars

\* a Recover with ill-formed words was refused while the entry of its pair
\* holds a phrase
C12_Witness ==
    /\ IllFormedWords(call)
    /\ ret.err = "Phrasing"
    /\ keyring[KeyId(call.arg.wallet, call.arg.name)].some

====
